---- MODULE Spec2Model ----
(***************************************************************************)
(* Model of perplexity-sidecar/app.py: the process-wide Perplexity client  *)
(* cache (get_client), the /v1/chat/completions handler and the streaming  *)
(* translator (_stream_response: producer thread, event-loop callbacks,    *)
(* asyncio queue, consuming generator).                                    *)
(***************************************************************************)
EXTENDS Integers, Sequences, FiniteSets, TLC

(* ------------------------------ bounds -------------------------------- *)
\* number of request slots (requests handled by the process)
NumReq == 2
\* number of snapshots an upstream stream delivers before it ends or fails
MaxReads == 2

Reqs == 1 .. NumReq

(* ------------------------------ strings ------------------------------- *)
\* Python strings are sequences of one-character strings.
Min(a, b) == IF a < b THEN a ELSE b
Max(a, b) == IF a > b THEN a ELSE b

\* s[n:]
DropFirst(s, n) == SubSeq(s, Min(n, Len(s)) + 1, Len(s))
\* s[:n]
TakeFirst(s, n) == SubSeq(s, 1, Min(n, Len(s)))
\* s[-n:]
TakeLast(s, n) == SubSeq(s, Max(1, Len(s) - n + 1), Len(s))
\* t.startswith(s)
StartsWith(t, s) == Len(s) <= Len(t) /\ SubSeq(t, 1, Len(s)) = s

RECURSIVE Concat(_)
\* "".join(ss)
Concat(ss) == IF ss = <<>> THEN <<>> ELSE Head(ss) \o Concat(Tail(ss))

\* cumulative answers the upstream may report (resp.answer or "")
Snapshots == { <<>>, <<"a">>, <<"b">>, <<"a", "b">>, <<"b", "a">> }
\* the answers used where several requests run side by side
FewSnapshots == { <<"a">> }

(* ------------------------------ tokens -------------------------------- *)
HashWidth == 16
Pad(n) == [i \in 1 .. n |-> "x"]
\* a 33-character session token: first character, 15 filler, one middle
\* character, 16 filler
Tok(first, mid) == <<first>> \o Pad(15) \o <<mid>> \o Pad(16)
TokA == Tok("p", "m")
TokB == Tok("p", "n")
TokC == Tok("q", "m")
TokS == <<"s", "t">>
\* None / "" : both are falsy in the code
NoToken == <<>>
\* what _fetch_session_token_from_dashboard can return
ProviderResults == {NoToken, TokA, TokB, TokC}
\* process environment: PERPLEXITY_SESSION_TOKEN (stripped) and the
\* session-token entry of PERPLEXITY_COOKIES ("malformed": not JSON)
EnvConfigs ==
    { [token |-> TokS, cookies |-> "unset"],
      [token |-> NoToken, cookies |-> "malformed"],
      [token |-> NoToken, cookies |-> "json"] }
\* the token inside PERPLEXITY_COOKIES when it is valid JSON
CookieTok == TokC

(* ------------------------------ requests ------------------------------ *)
\* MODEL_REGISTRY keys (static table built by discover_models)
MODEL_REGISTRY == {"perplexity-auto", "perplexity-sonar"}
ModelNames == {"perplexity-auto", "no-such-model"}
\* request bodies: json = FALSE is a body request.json() cannot parse;
\* messages is the number of messages
BadJson == [json |-> FALSE, model |-> "", stream |-> FALSE, messages |-> 0]
Bodies == {BadJson} \cup [json : {TRUE}, model : ModelNames,
                          stream : BOOLEAN, messages : {0, 1}]
NoBody == [json |-> FALSE, model |-> "none", stream |-> FALSE, messages |-> 0]
\* Streams of different requests share nothing (queue, thread and locals
\* belong to one call of _stream_response), so where several requests run
\* side by side one of them may stream and the others are synchronous.
StreamReqs == {1}
BodiesFor(r) == {b \in Bodies : b.stream => r \in StreamReqs}

NoClient == 0

(* ------------------------------ messages ------------------------------ *)
\* longest message list flattened
MaxMsgs == 2

\* a content block of a message: a dict with a type and a text, or ("str")
\* a bare string
Block(type, text) == [type |-> type, text |-> text]
\* the content of a message: a string, or a list of content blocks
StrContent(text) == [isList |-> FALSE, text |-> text, blocks |-> <<>>]
ListContent(blocks) == [isList |-> TRUE, text |-> <<>>, blocks |-> blocks]
Message(role, content) == [role |-> role, content |-> content]

Roles == {"system", "assistant", "user", "tool"}
MsgContents ==
    { StrContent(<<>>), StrContent(<<"h", "\n">>),
      ListContent(<<Block("text", <<"h">>), Block("str", <<"i">>)>>),
      ListContent(<<Block("image_url", <<"u">>), Block("text", <<"j">>)>>) }
Messages == {Message(role, content) : role \in Roles, content \in MsgContents}
MessageLists == UNION {[1 .. n -> Messages] : n \in 0 .. MaxMsgs}

RECURSIVE Join(_, _)
\* sep.join(parts)
Join(sep, parts) ==
    IF parts = <<>> THEN <<>>
    ELSE IF Len(parts) = 1 THEN parts[1]
    ELSE parts[1] \o sep \o Join(sep, Tail(parts))

\* the blocks of a list content that contribute text
IsTextBlock(b) == b.type \in {"text", "str"}
\* lines 317-324: a list content becomes the "\n"-join of its text blocks
ContentText(content) ==
    IF content.isList
    THEN LET tb == SelectSeq(content.blocks, IsTextBlock)
         IN  Join(<<"\n">>, [i \in 1 .. Len(tb) |-> tb[i].text])
    ELSE content.text

SystemHeader == <<"[", "S", "y", "s", "t", "e", "m", " ", "I", "n", "s", "t", "r", "u", "c", "t", "i", "o", "n", "s", "]">>
AssistantHeader == <<"[", "P", "r", "e", "v", "i", "o", "u", "s", " ", "A", "s", "s", "i", "s", "t", "a", "n", "t", " ", "R", "e", "s", "p", "o", "n", "s", "e", "]">>

\* mutant of Part: an assistant message is passed on like a user message
Part_AssistantVerbatim(msg) ==
    IF msg.role = "system"
    THEN SystemHeader \o <<"\n">> \o ContentText(msg.content) \o <<"\n">>
    ELSE ContentText(msg.content)

\* the element appended to parts for one message
Part(msg) ==
    IF msg.role = "system"
    THEN SystemHeader \o <<"\n">> \o ContentText(msg.content) \o <<"\n">>
    ELSE IF msg.role = "assistant"
    THEN AssistantHeader \o <<"\n">> \o ContentText(msg.content) \o <<"\n">>
    ELSE ContentText(msg.content)

messages_to_query(msgs) ==
    Join(<<"\n", "\n">>, [i \in 1 .. Len(msgs) |-> Part(msgs[i])])

NoQuery == [done |-> FALSE, text |-> <<>>]

(* ------------------------------ chunks -------------------------------- *)
\* one SSE item yielded by _stream_response
Chunk(role, hasContent, content, finish) ==
    [type |-> "chunk", role |-> role, hasContent |-> hasContent,
     content |-> content, finish_reason |-> finish]
init_data == Chunk("assistant", TRUE, <<>>, "null")
chunk_data(payload) == Chunk("none", TRUE, payload, "null")
\* mutant of err_data: the error frame carries finish_reason "stop"
err_data_AsStop == Chunk("none", FALSE, <<>>, "stop")
err_data == Chunk("none", FALSE, <<>>, "error")
final_data == Chunk("none", FALSE, <<>>, "stop")
DONE == [type |-> "[DONE]", role |-> "none", hasContent |-> FALSE,
         content |-> <<>>, finish_reason |-> "null"]

\* queue events
Event(kind, payload) == [kind |-> kind, payload |-> payload]

VARIABLES
    env,              \* process environment (fixed)
    client,           \* _client: id of the cached Perplexity session
    clientTokenHash,  \* _client_token_hash
    sessions,         \* every Perplexity object constructed: token, closed
    fetches,          \* number of credential-provider queries
    req,              \* body of request r
    status,           \* handler outcome of request r
    prov,             \* what the dashboard returned for request r
    cred,             \* token _get_session_token returned for request r
    conv,             \* session the conversation of request r is bound to
    asks,             \* upstream ask calls of request r, in order
    synced,           \* answers of the non-streaming asks of request r
    response,         \* the JSONResponse of request r
    ppc,              \* producer thread position
    last,             \* producer local: last cumulative answer
    snaps,            \* snapshots the producer has read, in order
    produced,         \* events the producer has scheduled, in order
    pending,          \* call_soon_threadsafe callbacks not yet run
    queue,            \* asyncio.Queue contents
    cpc,              \* generator position
    out,              \* items the generator has yielded
    messages,         \* argument of messages_to_query
    query             \* result of messages_to_query

gvars == <<env, client, clientTokenHash, sessions, fetches>>
hvars == <<req, status, prov, cred, conv, response>>
pvars == <<asks, synced, ppc, last, snaps, produced, pending>>
cvars == <<queue, cpc, out>>
qvars == <<messages, query>>
vars == <<gvars, qvars, hvars, pvars, cvars>>

(* --------------------------- session cache ---------------------------- *)
\* mutant of _get_session_token: PERPLEXITY_COOKIES is not consulted
_get_session_token_NoCookies(p) ==
    IF p # NoToken THEN p
    ELSE IF env.token # NoToken THEN env.token
    ELSE NoToken

\* _get_session_token: dashboard token, else PERPLEXITY_SESSION_TOKEN, else
\* PERPLEXITY_COOKIES; NoToken stands for the HTTPException(500)
_get_session_token(p) ==
    IF p # NoToken THEN p
    ELSE IF env.token # NoToken THEN env.token
    ELSE IF env.cookies = "json" THEN CookieTok
    ELSE NoToken

\* token[:16] + token[-16:]
TokenHash(token) == TakeFirst(token, HashWidth) \o TakeLast(token, HashWidth)

\* mutant of NeedsNewClient: the token hash is not compared
NeedsNewClient_FirstOnly(token_hash) == client = NoClient

\* the condition under which get_client builds a new client
NeedsNewClient(token_hash) ==
    client = NoClient \/ token_hash # clientTokenHash

\* _client.close() on the client being replaced
CloseOld(ss) ==
    IF client # NoClient THEN [ss EXCEPT ![client].closed = TRUE] ELSE ss

\* get_client after the token was obtained: the new values of _client,
\* _client_token_hash and the set of constructed sessions
get_client(token) ==
    IF NeedsNewClient(TokenHash(token))
    THEN [client |-> Len(sessions) + 1,
          hash |-> TokenHash(token),
          sessions |-> Append(CloseOld(sessions),
                              [token |-> token, closed |-> FALSE])]
    ELSE [client |-> client, hash |-> clientTokenHash, sessions |-> sessions]

(* --------------------------- chat_completions ------------------------- *)
\* mutant of Validate: the model is not looked up before get_client
Validate_NoModelCheck(body) ==
    IF ~body.json THEN "Invalid JSON body"
    ELSE IF body.messages = 0 THEN "messages is required"
    ELSE "ok"

\* the 400 checks of chat_completions, in order
Validate(body) ==
    IF ~body.json THEN "Invalid JSON body"
    ELSE IF body.messages = 0 THEN "messages is required"
    ELSE IF body.model \notin MODEL_REGISTRY THEN "Unknown model"
    ELSE "ok"

\* outcomes of conversation.ask(stream=False): an answer or an exception
AskResults(answers) == [ok : {TRUE}, answer : answers]
                            \cup {[ok |-> FALSE, answer |-> <<>>]}

\* the body of the 200 response of a non-streaming request
JSONResponse(content) == [content |-> content, finish_reason |-> "stop"]
NoResponse == [content |-> <<>>, finish_reason |-> "none"]

\* the state after import of the module, for any message list
InitWith(msgs) ==
    /\ messages \in msgs
    /\ query = NoQuery
    /\ env \in EnvConfigs
    /\ client = NoClient
    /\ clientTokenHash = <<>>
    /\ sessions = <<>>
    /\ fetches = 0
    /\ req = [r \in Reqs |-> NoBody]
    /\ status = [r \in Reqs |-> "idle"]
    /\ prov = [r \in Reqs |-> NoToken]
    /\ cred = [r \in Reqs |-> NoToken]
    /\ conv = [r \in Reqs |-> NoClient]
    /\ asks = [r \in Reqs |-> <<>>]
    /\ synced = [r \in Reqs |-> <<>>]
    /\ response = [r \in Reqs |-> NoResponse]
    /\ ppc = [r \in Reqs |-> "none"]
    /\ last = [r \in Reqs |-> <<>>]
    /\ snaps = [r \in Reqs |-> <<>>]
    /\ produced = [r \in Reqs |-> <<>>]
    /\ pending = [r \in Reqs |-> <<>>]
    /\ queue = [r \in Reqs |-> <<>>]
    /\ cpc = [r \in Reqs |-> "none"]
    /\ out = [r \in Reqs |-> <<>>]

\* the flattening of the messages is followed on its own (QuerySpec below):
\* the handler hands the query to the upstream, whose answers are arbitrary
Init == InitWith({<<>>})

\* mutant of SyncStatus: a failed ask is answered with 200
SyncStatus_AlwaysOk(res) == "200"

\* status of a non-streaming request after its ask
SyncStatus(res) == IF res.ok THEN "200" ELSE "502"

\* POST /v1/chat/completions with the given body; p is what the dashboard
\* returns if it is asked, res the outcome of the non-streaming ask.  The
\* handler runs on the event loop without suspending once the body is read
\* (the non-streaming ask is a blocking call).
chat_completions(r, body, p, res) ==
    /\ status[r] = "idle"
    /\ req' = [req EXCEPT ![r] = body]
    /\ UNCHANGED <<env, ppc, last, snaps, produced, pending, queue, out,
                   qvars>>
    /\ IF Validate(body) # "ok"
       THEN /\ status' = [status EXCEPT ![r] = "400"]
            /\ UNCHANGED <<client, clientTokenHash, sessions, fetches, prov,
                           cred, conv, asks, synced, response, cpc>>
       ELSE LET token == _get_session_token(p) IN
            /\ fetches' = fetches + 1
            /\ prov' = [prov EXCEPT ![r] = p]
            /\ cred' = [cred EXCEPT ![r] = token]
            /\ IF token = NoToken
               THEN /\ status' = [status EXCEPT ![r] = "500"]
                    /\ UNCHANGED <<client, clientTokenHash, sessions, conv,
                                   asks, synced, response, cpc>>
               ELSE LET g == get_client(token) IN
                    /\ client' = g.client
                    /\ clientTokenHash' = g.hash
                    /\ sessions' = g.sessions
                    /\ conv' = [conv EXCEPT ![r] = g.client]
                    /\ IF body.stream
                       THEN /\ status' = [status EXCEPT ![r] = "streaming"]
                            /\ cpc' = [cpc EXCEPT ![r] = "start"]
                            /\ UNCHANGED <<asks, synced, response>>
                       ELSE /\ asks' = [asks EXCEPT ![r] = Append(@, "sync")]
                            /\ status' = [status EXCEPT ![r] = SyncStatus(res)]
                            /\ IF res.ok
                               THEN /\ synced' = [synced EXCEPT ![r] =
                                                     Append(@, res.answer)]
                                    /\ response' = [response EXCEPT ![r] =
                                                   JSONResponse(res.answer)]
                               ELSE UNCHANGED <<synced, response>>
                            /\ UNCHANGED cpc

(* --------------------------- _stream_response ------------------------- *)
\* mutant of Schedule: the error event of a failed fallback is not queued
Schedule_DropError(r, ev) ==
    IF ev.kind = "error"
    THEN UNCHANGED <<pending, produced>>
    ELSE /\ pending' = [pending EXCEPT ![r] = Append(@, ev)]
         /\ produced' = [produced EXCEPT ![r] = Append(@, ev)]

\* loop.call_soon_threadsafe(queue.put_nowait, ev)
Schedule(r, ev) ==
    /\ pending' = [pending EXCEPT ![r] = Append(@, ev)]
    /\ produced' = [produced EXCEPT ![r] = Append(@, ev)]

\* mutant of HasDelta: any snapshot that differs from the stored one counts
HasDelta_Differs(current, lst) == current # lst

\* the producer's test for emitting a delta
HasDelta(current, lst) == Len(current) > Len(lst)
\* mutant of Delta: the whole snapshot is emitted
Delta_Whole(current, lst) == current

\* the delta the producer emits
Delta(current, lst) == DropFirst(current, Len(lst))

\* first iteration of the generator: queue created, producer thread started,
\* role chunk yielded
StreamStart(r) ==
    /\ cpc[r] = "start"
    /\ ppc' = [ppc EXCEPT ![r] = "ask"]
    /\ out' = [out EXCEPT ![r] = Append(@, init_data)]
    /\ cpc' = [cpc EXCEPT ![r] = "get"]
    /\ UNCHANGED <<gvars, qvars, hvars, asks, synced, last, snaps, produced, pending,
                   queue>>

\* producer: conversation.ask(query, model=model_obj, stream=True)
ProducerAsk(r) ==
    /\ ppc[r] = "ask"
    /\ asks' = [asks EXCEPT ![r] = Append(@, "stream")]
    /\ ppc' = [ppc EXCEPT ![r] = "iter"]
    /\ UNCHANGED <<gvars, qvars, hvars, synced, last, snaps, produced, pending, cvars>>

\* producer: one iteration of the for loop with snapshot current
ProducerRead(r, current) ==
    /\ ppc[r] = "iter"
    /\ Len(snaps[r]) < MaxReads
    /\ snaps' = [snaps EXCEPT ![r] = Append(@, current)]
    /\ IF HasDelta(current, last[r])
       THEN /\ last' = [last EXCEPT ![r] = current]
            /\ Schedule(r, Event("delta", Delta(current, last[r])))
       ELSE UNCHANGED <<last, produced, pending>>
    /\ UNCHANGED <<gvars, qvars, hvars, asks, synced, ppc, cvars>>

\* producer: the upstream iterator is exhausted
ProducerExhaust(r) ==
    /\ ppc[r] = "iter"
    /\ Schedule(r, Event("done", <<>>))
    /\ ppc' = [ppc EXCEPT ![r] = "exit"]
    /\ UNCHANGED <<gvars, qvars, hvars, asks, synced, last, snaps, cvars>>

\* producer: the streaming ask or its iteration raises
ProducerRaise(r) ==
    /\ ppc[r] = "iter"
    /\ ppc' = [ppc EXCEPT ![r] = "fallback"]
    /\ UNCHANGED <<gvars, qvars, hvars, asks, synced, last, snaps, produced, pending,
                   cvars>>

\* mutant of FallbackFailPc: the fallback ask is tried again
FallbackFailPc_Retry == "fallback"

\* where the producer goes when the fallback ask raises: the thread ends
FallbackFailPc == "exit"

\* producer: the fallback conversation.ask(stream=False) with outcome res,
\* up to the scheduling of its delta
ProducerFallback(r, res) ==
    /\ ppc[r] = "fallback"
    /\ asks' = [asks EXCEPT ![r] = Append(@, "sync")]
    /\ IF res.ok
       THEN /\ ppc' = [ppc EXCEPT ![r] = "fallback_done"]
            /\ synced' = [synced EXCEPT ![r] = Append(@, res.answer)]
            /\ IF HasDelta(res.answer, last[r])
               THEN Schedule(r, Event("delta", Delta(res.answer, last[r])))
               ELSE UNCHANGED <<produced, pending>>
       ELSE /\ ppc' = [ppc EXCEPT ![r] = FallbackFailPc]
            /\ Schedule(r, Event("error", <<"e">>))
            /\ UNCHANGED synced
    /\ UNCHANGED <<gvars, qvars, hvars, last, snaps, cvars>>

\* producer: the ("done", "") put after a successful fallback
ProducerFallbackDone(r) ==
    /\ ppc[r] = "fallback_done"
    /\ Schedule(r, Event("done", <<>>))
    /\ ppc' = [ppc EXCEPT ![r] = "exit"]
    /\ UNCHANGED <<gvars, qvars, hvars, asks, synced, last, snaps, cvars>>

\* mutant of LoopCallback: the event is put at the front of the queue
LoopCallback_Lifo(r) ==
    /\ pending[r] # <<>>
    /\ queue' = [queue EXCEPT ![r] = <<Head(pending[r])>> \o @]
    /\ pending' = [pending EXCEPT ![r] = Tail(@)]
    /\ UNCHANGED <<gvars, qvars, hvars, asks, synced, ppc, last, snaps, produced,
                   cpc, out>>

\* event loop: runs the oldest scheduled queue.put_nowait callback
LoopCallback(r) ==
    /\ pending[r] # <<>>
    /\ queue' = [queue EXCEPT ![r] = Append(@, Head(pending[r]))]
    /\ pending' = [pending EXCEPT ![r] = Tail(@)]
    /\ UNCHANGED <<gvars, qvars, hvars, asks, synced, ppc, last, snaps, produced,
                   cpc, out>>

\* generator: kind, payload = await queue.get() and the branch taken
ConsumerGet(r) ==
    /\ cpc[r] = "get"
    /\ queue[r] # <<>>
    /\ queue' = [queue EXCEPT ![r] = Tail(@)]
    /\ LET ev == Head(queue[r]) IN
       IF ev.kind = "delta"
       THEN /\ out' = [out EXCEPT ![r] = Append(@, chunk_data(ev.payload))]
            /\ UNCHANGED cpc
       ELSE IF ev.kind = "error"
       THEN /\ out' = [out EXCEPT ![r] = Append(@, err_data)]
            /\ cpc' = [cpc EXCEPT ![r] = "final"]
       ELSE /\ cpc' = [cpc EXCEPT ![r] = "final"]
            /\ UNCHANGED out
    /\ UNCHANGED <<gvars, qvars, hvars, pvars>>

\* generator: yield final_data
ConsumerFinal(r) ==
    /\ cpc[r] = "final"
    /\ out' = [out EXCEPT ![r] = Append(@, final_data)]
    /\ cpc' = [cpc EXCEPT ![r] = "sentinel"]
    /\ UNCHANGED <<gvars, qvars, hvars, pvars, queue>>

\* generator: yield "data: [DONE]\n\n" and return
ConsumerDone(r) ==
    /\ cpc[r] = "sentinel"
    /\ out' = [out EXCEPT ![r] = Append(@, DONE)]
    /\ cpc' = [cpc EXCEPT ![r] = "closed"]
    /\ UNCHANGED <<gvars, qvars, hvars, pvars, queue>>

\* the caller disconnects: the framework cancels the suspended generator
Disconnect(r) ==
    /\ cpc[r] \in {"get", "final", "sentinel"}
    /\ cpc' = [cpc EXCEPT ![r] = "cancelled"]
    /\ UNCHANGED <<gvars, qvars, hvars, pvars, queue, out>>

Producer(r, answers) ==
    \/ ProducerAsk(r)
    \/ \E current \in answers : ProducerRead(r, current)
    \/ ProducerExhaust(r)
    \/ ProducerRaise(r)
    \/ \E res \in AskResults(answers) : ProducerFallback(r, res)
    \/ ProducerFallbackDone(r)

Consumer(r) ==
    \/ StreamStart(r)
    \/ ConsumerGet(r)
    \/ ConsumerFinal(r)
    \/ ConsumerDone(r)

Handler(r, answers) ==
    \E body \in BodiesFor(r), p \in ProviderResults,
       res \in AskResults(answers) :
        chat_completions(r, body, p, res)

\* query = messages_to_query(messages)
Flatten ==
    /\ ~query.done
    /\ query' = [done |-> TRUE, text |-> messages_to_query(messages)]
    /\ UNCHANGED <<gvars, hvars, pvars, cvars, messages>>

\* several requests side by side
Next ==
    \E r \in Reqs :
        \/ Handler(r, FewSnapshots)
        \/ Producer(r, FewSnapshots)
        \/ LoopCallback(r)
        \/ Consumer(r)
        \/ Disconnect(r)

Spec == Init /\ [][Next]_vars

\* one request, every upstream answer
NextStream ==
    \/ Handler(1, Snapshots)
    \/ Producer(1, Snapshots)
    \/ LoopCallback(1)
    \/ Consumer(1)
    \/ Disconnect(1)

StreamSpec == Init /\ [][NextStream]_vars

\* one request whose caller stays connected; the producer thread, the event
\* loop's callbacks and the consuming generator are each scheduled fairly,
\* and an upstream ask ends: it is exhausted or it raises
NextLive ==
    \/ Handler(1, Snapshots)
    \/ Producer(1, Snapshots)
    \/ LoopCallback(1)
    \/ Consumer(1)

LiveSpec ==
    /\ Init
    /\ [][NextLive]_vars
    /\ WF_vars(Producer(1, Snapshots))
    /\ WF_vars(LoopCallback(1))
    /\ WF_vars(Consumer(1))

\* messages_to_query applied to every message list up to MaxMsgs
NextQuery == Flatten

QuerySpec == InitWith(MessageLists) /\ [][NextQuery]_vars

(* ====================================================================== *)
(* Properties                                                             *)
(* ====================================================================== *)
Last(ss) == ss[Len(ss)]
IsContentDelta(c) == c.type = "chunk" /\ c.role = "none" /\ c.hasContent
IsDeltaEvent(ev) == ev.kind = "delta"
IsClosingEvent(ev) == ev.kind \in {"done", "error"}
\* the contents of the content-delta chunks of o, in order
Contents(o) ==
    LET d == SelectSeq(o, IsContentDelta) IN [i \in 1 .. Len(d) |-> d[i].content]
\* the text the caller has received from request r
Delivered(r) == Concat(Contents(out[r]))
\* each snapshot is a prefix of the next
Monotone(ss) == \A i \in 1 .. Len(ss) - 1 : StartsWith(ss[i + 1], ss[i])
FinalSnapshot(ss) == IF ss = <<>> THEN <<>> ELSE Last(ss)
\* the generator of request r has left its queue loop
LoopLeft(r) == cpc[r] \in {"final", "sentinel", "closed"}
\* the handler of request r runs in this step
Handled(r) == status[r] = "idle" /\ status'[r] # "idle"

\* C1: when the streaming ask ends without an exception and every snapshot
\* is a prefix of the next, the contents of the content-delta chunks, in
\* delivery order, concatenate to the last snapshot.
C1_DeltasRebuildAnswer ==
    \A r \in Reqs :
        (LoopLeft(r) /\ asks[r] = <<"stream">> /\ Monotone(snaps[r]))
            => Delivered(r) = FinalSnapshot(snaps[r])

C1_Witness ==
    \E r \in Reqs :
        /\ cpc[r] = "closed"
        /\ asks[r] = <<"stream">>
        /\ Len(snaps[r]) >= 2
        /\ Monotone(snaps[r])
        /\ snaps[r][1] # <<>>
        /\ snaps[r][2] # snaps[r][1]
        /\ Delivered(r) = snaps[r][2]

\* C2: a non-empty snapshot that differs from the stored cumulative answer
\* and does not start with it is emitted whole, and becomes the stored
\* cumulative answer.
C2_NonMonotonicEmitsWhole ==
    [][\A r \in Reqs :
          (Len(snaps'[r]) = Len(snaps[r]) + 1) =>
              LET current == Last(snaps'[r]) IN
              (current # <<>> /\ current # last[r]
                   /\ ~StartsWith(current, last[r]))
                  => /\ produced'[r] =
                            Append(produced[r], Event("delta", current))
                     /\ last'[r] = current]_vars

\* C3: a finished streaming response is the role chunk, then content-delta
\* chunks, then exactly one chunk with a finish_reason, then [DONE], and
\* [DONE] is never followed by anything.
C3_StreamShape ==
    \A r \in Reqs :
        LET o == out[r] IN
        /\ \A i \in 1 .. Len(o) : o[i] = DONE => i = Len(o)
        /\ o # <<>> => o[1] = init_data
        /\ cpc[r] = "closed" =>
              /\ Len(o) >= 3
              /\ o[Len(o)] = DONE
              /\ o[Len(o) - 1].type = "chunk"
              /\ o[Len(o) - 1].finish_reason # "null"
              /\ \A i \in 2 .. Len(o) - 2 :
                     IsContentDelta(o[i]) /\ o[i].finish_reason = "null"

\* the producer schedules at most one closing event, exactly one once it has
\* ended, and nothing after it
C4_ClosingOnce ==
    \A r \in Reqs :
        LET closing == SelectSeq(produced[r], IsClosingEvent) IN
        /\ Len(closing) <= 1
        /\ Len(closing) = 1 => IsClosingEvent(Last(produced[r]))
        /\ ppc[r] = "exit" <=> Len(closing) = 1

\* C4: on every path the producer schedules exactly one closing event (done
\* or error), and a generator waiting on its queue eventually yields [DONE].
C4_StreamTerminates ==
    /\ []C4_ClosingOnce
    /\ \A r \in Reqs :
           (cpc[r] = "get") ~> (cpc[r] = "closed" /\ Last(out[r]) = DONE)

C4_Witness ==
    \E r \in Reqs :
        /\ cpc[r] = "closed"
        /\ asks[r] = <<"stream", "sync">>
        /\ Last(produced[r]).kind = "error"
        /\ Last(out[r]) = DONE

\* the asks of a streaming request are a prefix of <<stream, sync>>, those
\* of a non-streaming request a prefix of <<sync>>
C5_AskShape ==
    \A r \in Reqs :
        /\ Len(asks[r]) <= 2
        /\ req[r].stream => asks[r] \in {<<>>, <<"stream">>, <<"stream", "sync">>}
        /\ ~req[r].stream => asks[r] \in {<<>>, <<"sync">>}

\* C5: a streaming request issues the streaming ask and at most one
\* non-streaming ask after it, the latter only once the streaming ask has
\* raised; a non-streaming request issues at most one ask.
C5_BoundedAsks ==
    /\ []C5_AskShape
    /\ [][\A r \in Reqs :
             /\ (req[r].stream /\ Len(asks'[r]) = 2 /\ Len(asks[r]) = 1)
                    => ppc[r] = "fallback"
             /\ (ppc'[r] = "fallback" /\ ppc[r] # "fallback")
                    => (ppc[r] = "iter" /\ asks[r] = <<"stream">>
                          /\ UNCHANGED <<snaps, produced>>)]_vars

C5_Witness ==
    \E r \in Reqs :
        /\ asks[r] = <<"stream", "sync">>
        /\ ppc[r] = "exit"
        /\ Last(produced[r]).kind = "error"

\* C6: a call of get_client that obtains a credential constructs a Session,
\* which replaces the cached one, exactly when nothing is cached or the
\* credential's hash differs from the cached hash; otherwise it returns the
\* cached Session and constructs none.  Afterwards the cached hash is the
\* hash of the credential of that call.
C6_RebuildIffHashChanges ==
    [][\A r \in Reqs :
          (Handled(r) /\ status'[r] \notin {"400", "500"}) =>
              LET h == TokenHash(cred'[r])
                  built == Len(sessions') = Len(sessions) + 1
              IN  /\ built <=> (client = NoClient \/ h # clientTokenHash)
                  /\ built =>
                        /\ client' = Len(sessions')
                        /\ client' # client
                        /\ sessions'[client'].token = cred'[r]
                        /\ ~sessions'[client'].closed
                  /\ ~built => (client' = client /\ sessions' = sessions)
                  /\ conv'[r] = client'
                  /\ clientTokenHash' = h]_vars

C6_Witness ==
    \E r1, r2 \in Reqs :
        /\ r1 # r2
        /\ conv[r1] = 1
        /\ conv[r2] = 1
        /\ cred[r1] = cred[r2]
        /\ Len(sessions) = 1

\* C7: while the producer of a streaming request is still reading from the
\* upstream, the Session its conversation is bound to is not closed.
C7_InFlightSessionOpen ==
    \A r \in Reqs :
        (status[r] = "streaming" /\ ppc[r] \in {"ask", "iter", "fallback"})
            => ~sessions[conv[r]].closed

\* the static credential of the process environment, NoToken if there is none
StaticCredential ==
    IF env.token # NoToken THEN env.token
    ELSE IF env.cookies = "json" THEN CookieTok
    ELSE NoToken

\* C8: when the provider yields nothing, the cached Session is returned
\* unchanged if there is one; otherwise the static credential is used; the
\* call fails with the configuration error only when there is neither.
C8_FallbackOrder ==
    [][\A r \in Reqs :
          (Handled(r) /\ status'[r] # "400" /\ prov'[r] = NoToken) =>
              IF client # NoClient
              THEN /\ status'[r] # "500"
                   /\ conv'[r] = client
                   /\ UNCHANGED <<client, clientTokenHash, sessions>>
              ELSE IF StaticCredential # NoToken
              THEN /\ status'[r] # "500"
                   /\ sessions'[conv'[r]].token = StaticCredential
              ELSE status'[r] = "500"]_vars

\* what the interface calls invalid input
InvalidInput(body) ==
    \/ ~body.json
    \/ body.messages = 0
    \/ body.model \notin MODEL_REGISTRY

\* a request with invalid input ends as 400 and has no conversation, ask,
\* producer or generator
C9_RejectedUntouched ==
    \A r \in Reqs :
        (status[r] # "idle" /\ InvalidInput(req[r])) =>
            /\ status[r] = "400"
            /\ asks[r] = <<>>
            /\ conv[r] = NoClient
            /\ ppc[r] = "none"
            /\ cpc[r] = "none"

\* C9: a request with invalid input is rejected without querying the
\* credential provider, without touching the cached Session and its hash,
\* without constructing a Session and without any upstream ask.
C9_InvalidInputNoEffect ==
    /\ []C9_RejectedUntouched
    /\ [][\A r \in Reqs :
             (Handled(r) /\ InvalidInput(req'[r])) =>
                 UNCHANGED <<client, clientTokenHash, sessions, fetches,
                             asks>>]_vars

C9_Witness ==
    \E r \in Reqs :
        /\ status[r] = "400"
        /\ req[r].json
        /\ req[r].messages > 0
        /\ req[r].model \notin MODEL_REGISTRY
        /\ client # NoClient
        /\ fetches = 1

\* C10: a non-streaming request that reaches its ask ends in exactly one of
\* two ways: a 200 response with the upstream's final answer and
\* finish_reason "stop", or a 502 when the ask raised; it issues one ask
\* and yields no chunk.
C10_SingleOutcome ==
    \A r \in Reqs :
        (status[r] # "idle" /\ ~req[r].stream) =>
            /\ out[r] = <<>> /\ queue[r] = <<>> /\ pending[r] = <<>>
            /\ produced[r] = <<>> /\ ppc[r] = "none" /\ cpc[r] = "none"
            /\ status[r] \in {"400", "500", "200", "502"}
            /\ status[r] \in {"400", "500"} =>
                  (asks[r] = <<>> /\ response[r] = NoResponse)
            /\ status[r] = "200" =>
                  /\ asks[r] = <<"sync">>
                  /\ Len(synced[r]) = 1
                  /\ response[r].content = synced[r][1]
                  /\ response[r].finish_reason = "stop"
            /\ status[r] = "502" =>
                  /\ asks[r] = <<"sync">>
                  /\ synced[r] = <<>>
                  /\ response[r] = NoResponse

C10_Witness ==
    \E r \in Reqs :
        /\ ~req[r].stream
        /\ status[r] = "200"
        /\ response[r].content = <<"a", "b">>

\* request r has been sent a chunk with finish_reason "error"
HasErrorChunk(r) ==
    \E i \in 1 .. Len(out[r]) : out[r][i].finish_reason = "error"
HasEvent(r, kind) ==
    \E i \in 1 .. Len(produced[r]) : produced[r][i].kind = kind

\* C11: an error chunk is sent exactly when the streaming ask raised and the
\* fallback ask raised too; after a successful fallback the stream ends
\* through the done event without an error chunk; a stream that ended by
\* exhaustion has issued no fallback ask.
C11_ErrorIffBothFail ==
    \A r \in Reqs :
        req[r].stream =>
            /\ HasErrorChunk(r) =>
                  (asks[r] = <<"stream", "sync">> /\ synced[r] = <<>>
                       /\ ppc[r] = "exit")
            /\ (LoopLeft(r) /\ asks[r] = <<"stream", "sync">>
                    /\ synced[r] = <<>>) => HasErrorChunk(r)
            /\ synced[r] # <<>> =>
                  (asks[r] = <<"stream", "sync">> /\ ~HasErrorChunk(r)
                       /\ ~HasEvent(r, "error"))
            /\ (LoopLeft(r) /\ synced[r] # <<>>) =>
                  Last(produced[r]).kind = "done"
            /\ (HasEvent(r, "done") /\ synced[r] = <<>>) =>
                  asks[r] = <<"stream">>

C11_Witness ==
    \E r \in Reqs :
        /\ cpc[r] = "closed"
        /\ HasErrorChunk(r)
        /\ asks[r] = <<"stream", "sync">>
        /\ Len(snaps[r]) >= 1

\* the payloads of the delta events of evs, in order
DeltaPayloads(evs) ==
    LET d == SelectSeq(evs, IsDeltaEvent) IN [i \in 1 .. Len(d) |-> d[i].payload]

\* C12: the deltas delivered, followed by those in the queue and those still
\* scheduled, are the deltas the producer computed, in its order; the
\* closing event is the last event produced and the last in flight; once the
\* generator has left its loop every delta has been delivered, and no
\* content-delta chunk follows a chunk with a finish_reason.
C12_OrderPreserved ==
    \A r \in Reqs :
        LET inflight == queue[r] \o pending[r] IN
        /\ DeltaPayloads(produced[r]) =
               Contents(out[r]) \o DeltaPayloads(inflight)
        /\ \A i \in 1 .. Len(produced[r]) :
               IsClosingEvent(produced[r][i]) => i = Len(produced[r])
        /\ \A i \in 1 .. Len(inflight) :
               IsClosingEvent(inflight[i]) => i = Len(inflight)
        /\ LoopLeft(r) => Contents(out[r]) = DeltaPayloads(produced[r])
        /\ \A i, j \in 1 .. Len(out[r]) :
               (i < j /\ out[r][i].finish_reason # "null")
                   => ~IsContentDelta(out[r][j])

C12_Witness ==
    \E r \in Reqs :
        /\ cpc[r] = "closed"
        /\ Contents(out[r]) = << <<"a">>, <<"b">> >>
        /\ DeltaPayloads(produced[r]) = << <<"a">>, <<"b">> >>

\* C13: once the caller has disconnected, the producer reads nothing more
\* from the upstream, issues no ask and schedules no event.
C13_AbandonedAfterDisconnect ==
    [][\A r \in Reqs :
          cpc[r] = "cancelled" =>
              /\ snaps'[r] = snaps[r]
              /\ asks'[r] = asks[r]
              /\ produced'[r] = produced[r]]_vars

\* a request that failed with the configuration error has no conversation,
\* no ask, no producer and no generator, and it failed exactly because
\* neither the provider nor the environment had a credential
C14_ConfigErrorState ==
    \A r \in Reqs :
        /\ status[r] = "500" <=>
              (status[r] # "idle" /\ ~InvalidInput(req[r])
                   /\ prov[r] = NoToken /\ StaticCredential = NoToken)
        /\ status[r] = "500" =>
              (asks[r] = <<>> /\ conv[r] = NoClient /\ cred[r] = NoToken
                   /\ ppc[r] = "none" /\ cpc[r] = "none")

\* C14: a call that fails with the configuration error leaves the cached
\* Session, its hash and every constructed Session as they were, issues no
\* ask, queries the provider once and stays failed.
C14_ConfigErrorNoEffect ==
    /\ []C14_ConfigErrorState
    /\ [][\A r \in Reqs :
             /\ (Handled(r) /\ status'[r] = "500") =>
                    /\ UNCHANGED <<client, clientTokenHash, sessions, asks>>
                    /\ fetches' = fetches + 1
             /\ status[r] = "500" => status'[r] = "500"]_vars

C14_Witness ==
    \E r \in Reqs :
        /\ status[r] = "500"
        /\ client # NoClient
        /\ ~sessions[client].closed
        /\ fetches = 2

\* C16: after the streaming ask raised and the fallback ask answered F, the
\* content-delta chunks delivered concatenate to F.
C16_FallbackRebuildsAnswer ==
    \A r \in Reqs :
        (LoopLeft(r) /\ asks[r] = <<"stream", "sync">> /\ synced[r] # <<>>)
            => Delivered(r) = synced[r][1]

\* no delta event and no content-delta chunk of request r is empty
C17_NoEmptyDelta ==
    \A r \in Reqs :
        /\ \A i \in 1 .. Len(produced[r]) :
               IsDeltaEvent(produced[r][i]) => produced[r][i].payload # <<>>
        /\ \A i \in 1 .. Len(out[r]) :
               IsContentDelta(out[r][i]) => out[r][i].content # <<>>

\* C17: every content-delta chunk carries a non-empty delta; a snapshot, or
\* a fallback answer, that is empty or equal to the stored cumulative answer
\* produces no event and leaves the stored cumulative answer unchanged.
C17_DeltasNonEmpty ==
    /\ []C17_NoEmptyDelta
    /\ [][\A r \in Reqs :
             /\ (Len(snaps'[r]) = Len(snaps[r]) + 1
                    /\ Last(snaps'[r]) \in {<<>>, last[r]})
                    => (produced'[r] = produced[r] /\ last'[r] = last[r])
             /\ (req[r].stream /\ Len(synced'[r]) = Len(synced[r]) + 1
                    /\ Last(synced'[r]) \in {<<>>, last[r]})
                    => (produced'[r] = produced[r] /\ last'[r] = last[r])]_vars

C17_Witness ==
    \E r \in Reqs :
        /\ cpc[r] = "closed"
        /\ snaps[r] = << <<"a">>, <<>> >>
        /\ last[r] = <<"a">>
        /\ Contents(out[r]) = << <<"a">> >>

\* C18: the Session a call of get_client returns was constructed with the
\* credential fetched in that call.
C18_SessionBoundToCredential ==
    \A r \in Reqs :
        conv[r] # NoClient => sessions[conv[r]].token = cred[r]

\* the block the interface prescribes for one message
ExpectedBlock(msg) ==
    CASE msg.role = "system" ->
             SystemHeader \o <<"\n">> \o ContentText(msg.content) \o <<"\n">>
      [] msg.role = "assistant" ->
             AssistantHeader \o <<"\n">> \o ContentText(msg.content)
                 \o <<"\n">>
      [] OTHER -> ContentText(msg.content)

\* text is the blocks of msgs[1..n], in order, separated by blank lines
RECURSIVE IsJoinOfBlocks(_, _, _)
IsJoinOfBlocks(text, msgs, n) ==
    IF n = 0 THEN text = <<>>
    ELSE LET b == ExpectedBlock(msgs[n]) IN
         IF n = 1 THEN text = b
         ELSE /\ Len(text) >= Len(b) + 2
              /\ SubSeq(text, Len(text) - Len(b) + 1, Len(text)) = b
              /\ SubSeq(text, Len(text) - Len(b) - 1, Len(text) - Len(b))
                     = <<"\n", "\n">>
              /\ IsJoinOfBlocks(SubSeq(text, 1, Len(text) - Len(b) - 2),
                                msgs, n - 1)

\* C15: the query is the blank-line-separated join of one block per message,
\* in message order: the system and assistant blocks with their header, any
\* other role verbatim.
C15_QueryKeepsOrder ==
    query.done => IsJoinOfBlocks(query.text, messages, Len(messages))

C15_Witness ==
    /\ query.done
    /\ Len(messages) = 2
    /\ messages[1].role = "assistant"
    /\ messages[2].role = "user"
    /\ messages[1].content = StrContent(<<"h", "\n">>)
    /\ messages[2].content.isList
    /\ query.text = AssistantHeader \o <<"\n", "h", "\n", "\n", "\n", "\n">>
                        \o ContentText(messages[2].content)
====
